---- MODULE Spec2Model ----
(***************************************************************************)
(* Model of drivers/pci/controller/dwc/pcie-ls1024a.c: the LS1024A PCIe    *)
(* root-port glue (reset/clock/PHY sequencing, link start, interrupt mux). *)
(*                                                                         *)
(* Conventions                                                             *)
(*  - A 32-bit register is the set of its bit positions that read 1, so    *)
(*    v & ~m is v \ m, v | m is v \cup m, BIT(n) is {n}.                    *)
(*  - A call into another subsystem that returns an int / ERR_PTR takes    *)
(*    its result from an input: 0 for success or a code in ExtErrs.  A     *)
(*    call that fails leaves the resource as it was.                       *)
(***************************************************************************)
EXTENDS Integers, Sequences, FiniteSets, TLC

(* ---------------------------------------------------------------------- *)
(* Bounds                                                                  *)
(* ---------------------------------------------------------------------- *)
\* number of distinct error codes a failing external call may return
MaxErr == 2
\* largest fsl,port-index value the device tree may carry
MaxPort == 2

ExtErrs == { -c : c \in 1..MaxErr }
Codes == {0} \cup ExtErrs

(* ---------------------------------------------------------------------- *)
(* Program constants                                                       *)
(* ---------------------------------------------------------------------- *)
ENOMEM == 12
ENODEV == 19
EINVAL == 22
EPROBE_DEFER == 517
\* result of a call that fails by returning NULL / an out-of-range value
\* (no error code of its own)
FAILED == 1

CFG0_DEV_TYPE_MASK == {0, 1, 2, 3}
CFG0_DEV_TYPE_RC == {2}
CFG5_LINK_DOWN_RST == {9}
CFG5_APP_RDY_L23 == {2}
CFG5_LTSSM_EN == {1}
CFG5_APP_INIT_RST == {0}
STS0_RDLH_LINK_UP == {16}
STS0_XMLH_LINK_UP == {15}
STS0_LINK_REQ_RST_NOT == {0}

PCIE_INTR_MSI == {12}
PCIE_INTR_LINK_AUTO_BW == {11}
PCIE_INTR_HP == {10}
PCIE_INTR_PME == {9}
PCIE_INTR_AER == {8}
PCIE_INTR_INTD_DEASSERT == {7}
PCIE_INTR_INTD_ASSERT == {6}
PCIE_INTR_INTC_DEASSERT == {5}
PCIE_INTR_INTC_ASSERT == {4}
PCIE_INTR_INTB_DEASSERT == {3}
PCIE_INTR_INTB_ASSERT == {2}
PCIE_INTR_INTA_DEASSERT == {1}
PCIE_INTR_INTA_ASSERT == {0}

LS1024A_PCIE_INTC_INTA == 0
LS1024A_PCIE_INTC_INTB == 2
LS1024A_PCIE_INTC_INTC == 4
LS1024A_PCIE_INTC_INTD == 6
LS1024A_PCIE_INTC_MSI == 12
LS1024A_PCIE_INTC_NUM_INTS == 13

BIT(n) == {n}

(* ---------------------------------------------------------------------- *)
(* State                                                                   *)
(* ---------------------------------------------------------------------- *)
VARIABLES
    resets,     \* reset domain -> TRUE when asserted (held in reset)
    clk,        \* TRUE when the "axi" clock is prepared and enabled
    phy,        \* [inited, powered, mode] of the "bus" PHY
    rc,         \* last call of the reset sequencer: [op, res, ops, pre]
    phc,        \* last call of ls1024a_pcie_enable_phy(): [op, res, ops, post]
    p_pc,       \* position of ls1024a_pcie_probe()
    ret,        \* probe's local `ret` (its return value once p_pc = "done")
    trace,      \* calls probe has made so far: <<function, argument, result>>
    port_idx,   \* pcie->port_idx
    irq_domain, \* TRUE when pcie->irq_domain holds a domain
    pp_irq,     \* pp->irq
    irq_req,    \* TRUE when the shared interrupt line is requested
    host,       \* TRUE when the port is registered with the host framework
    regs,       \* the shared "app" register bank: offset -> register value
    sl_pc,      \* position of ls1024a_pcie_start_link()
    sl,         \* the running start_link call: [up1, up2, polls, ret], its
                \* register writes <<offset, value, value before>>
                \* and the values of PCIEx_CFG0/5 when it was entered
    lu,         \* last ls1024a_pcie_link_up() call: [val, ret]
    virq_map,   \* slots of the interrupt domain that have a virtual IRQ mapped
    d_pc,       \* position of ls1024a_pcie_intc_handler()
    disp,       \* the running dispatch: [status, acks, handled, ret]
    mk,         \* the last mask(slot), whether unmask(slot) followed it, and
                \* the enable register before that mask: [seq, slot, start]
    regmap_lock,\* caller that holds the lock of the "app" regmap, 0 when free
    callers,    \* contexts calling mask/unmask: caller -> [pc, op, tmp, last]
    en_start,   \* the interrupt-enable register before any caller ran
    edges,      \* slot -> times the hardware has set its status bit
    invoked      \* slot -> times a dispatch has invoked its handler

resVars == <<resets, clk, phy, rc, phc>>
probeVars == <<p_pc, ret, trace, port_idx, irq_domain, pp_irq, irq_req, host>>
linkVars == <<sl_pc, sl, lu>>
concVars == <<regmap_lock, callers, en_start>>
hwVars == <<edges, invoked>>
irqVars == <<virq_map, d_pc, disp, mk, concVars, hwVars>>
rtVars == <<regs, linkVars, irqVars>>
vars == <<resVars, probeVars, rtVars>>

Domains == {"axi", "power", "regs"}
AllAsserted(rs) == \A d \in Domains : rs[d]
AllReleased(rs) == \A d \in Domains : ~rs[d]

(* ---------------------------------------------------------------------- *)
(* Reset sequencer                                                         *)
(* ---------------------------------------------------------------------- *)
\* reset_control_assert()/reset_control_deassert() on one domain; c is the
\* value the call returns
reset_control_assert(rs, d, c) == IF c = 0 THEN [rs EXCEPT ![d] = TRUE] ELSE rs
reset_control_deassert(rs, d, c) == IF c = 0 THEN [rs EXCEPT ![d] = FALSE] ELSE rs

\* Runs the calls of `order` (a sequence of domains) with `op` until one
\* fails: [resets, res, ops] where ops lists the calls made with their results.
RECURSIVE ResetChain(_, _, _, _, _)
ResetChain(rs, order, f, isAssert, done) ==
    IF order = <<>> THEN [resets |-> rs, res |-> 0, ops |-> done]
    ELSE LET d == Head(order)
             c == f[d]
             nm == IF isAssert THEN "reset_control_assert" ELSE "reset_control_deassert"
             r1 == IF isAssert THEN reset_control_assert(rs, d, c)
                               ELSE reset_control_deassert(rs, d, c)
             log == Append(done, <<nm, d, c>>)
         IN IF c # 0 THEN [resets |-> r1, res |-> c, ops |-> log]
            ELSE ResetChain(r1, Tail(order), f, isAssert, log)

AssertOrder == <<"regs", "power", "axi">>
DeassertOrder == <<"axi", "power", "regs">>

\* an assert that goes on with the next domain after a failure
reset_assert_keep_going(rs, f) ==
    LET a1 == ResetChain(rs, <<"regs">>, f, TRUE, <<>>)
        a2 == ResetChain(a1.resets, <<"power">>, f, TRUE, a1.ops)
        a3 == ResetChain(a2.resets, <<"axi">>, f, TRUE, a2.ops)
    IN [resets |-> a3.resets,
        res |-> IF a1.res # 0 THEN a1.res ELSE IF a2.res # 0 THEN a2.res ELSE a3.res,
        ops |-> a3.ops]

\* ls1024a_reset_assert(): regs, power, axi; stops at the first failure
ls1024a_reset_assert(rs, f) == ResetChain(rs, AssertOrder, f, TRUE, <<>>)

\* ls1024a_reset_deassert(): axi, power, regs; on failure calls
\* ls1024a_reset_assert() and drops its result
ls1024a_reset_deassert(rs, fd, fa) ==
    LET d == ResetChain(rs, DeassertOrder, fd, FALSE, <<>>)
    IN IF d.res = 0 THEN d
       ELSE LET a == ls1024a_reset_assert(d.resets, fa)
            IN [resets |-> a.resets, res |-> d.res, ops |-> d.ops \o a.ops]

(* ---------------------------------------------------------------------- *)
(* PHY                                                                     *)
(* ---------------------------------------------------------------------- *)
PhyOff == [inited |-> FALSE, powered |-> FALSE, mode |-> "none"]

\* the PHY framework calls; c is the value the call returns
phy_init(ph, c) == IF c = 0 THEN [ph EXCEPT !.inited = TRUE] ELSE ph
phy_exit(ph, c) == IF c = 0 THEN [ph EXCEPT !.inited = FALSE] ELSE ph
phy_set_mode(ph, c) == IF c = 0 THEN [ph EXCEPT !.mode = "PHY_MODE_PCIE"] ELSE ph
phy_power_on(ph, c) == IF c = 0 THEN [ph EXCEPT !.powered = TRUE] ELSE ph
phy_power_off(ph, c) == IF c = 0 THEN [ph EXCEPT !.powered = FALSE] ELSE ph

\* a disable that exits the PHY without powering it off
disable_phy_exit_only(ph, co, ce) ==
    [phy |-> phy_exit(ph, ce), ops |-> << <<"phy_exit", "-", ce>> >>]

\* ls1024a_pcie_disable_phy(): power off, then exit; both results dropped
ls1024a_pcie_disable_phy(ph, co, ce) ==
    [phy |-> phy_exit(phy_power_off(ph, co), ce),
     ops |-> << <<"phy_power_off", "-", co>>, <<"phy_exit", "-", ce>> >>]

\* an enable that forgets the phy_exit() of the power_on error path
enable_phy_no_exit(ph, ci, cm, cp, ce) ==
    LET p1 == phy_init(ph, ci)
        p2 == phy_set_mode(p1, cm)
        p3 == phy_power_on(p2, cp)
        o1 == << <<"phy_init", "-", ci>> >>
        o2 == Append(o1, <<"phy_set_mode", "-", cm>>)
        o3 == Append(o2, <<"phy_power_on", "-", cp>>)
    IN IF ci # 0 THEN [phy |-> p1, res |-> ci, ops |-> o1]
       ELSE IF cm # 0 THEN
            [phy |-> phy_exit(p2, ce), res |-> cm,
             ops |-> Append(o2, <<"phy_exit", "-", ce>>)]
       ELSE IF cp # 0 THEN [phy |-> p3, res |-> cp, ops |-> o3]
       ELSE [phy |-> p3, res |-> 0, ops |-> o3]

\* ls1024a_pcie_enable_phy(): init, set_mode(PCIe), power_on; ci, cm, cp are
\* the results of the three calls and ce the result of the phy_exit() of the
\* error paths
ls1024a_pcie_enable_phy(ph, ci, cm, cp, ce) ==
    LET p1 == phy_init(ph, ci)
        p2 == phy_set_mode(p1, cm)
        p3 == phy_power_on(p2, cp)
        o1 == << <<"phy_init", "-", ci>> >>
        o2 == Append(o1, <<"phy_set_mode", "-", cm>>)
        o3 == Append(o2, <<"phy_power_on", "-", cp>>)
    IN IF ci # 0 THEN [phy |-> p1, res |-> ci, ops |-> o1]
       ELSE IF cm # 0 THEN
            [phy |-> phy_exit(p2, ce), res |-> cm,
             ops |-> Append(o2, <<"phy_exit", "-", ce>>)]
       ELSE IF cp # 0 THEN
            [phy |-> phy_exit(p3, ce), res |-> cp,
             ops |-> Append(o3, <<"phy_exit", "-", ce>>)]
       ELSE [phy |-> p3, res |-> 0, ops |-> o3]

\* ls1024a_pcie_setup_phy(): cg is PTR_ERR of devm_phy_get() (0: a PHY)
ls1024a_pcie_setup_phy(ph, cg, ci, cm, cp, ce) ==
    LET og == << <<"devm_phy_get", "bus", cg>> >>
    IN IF cg = -EPROBE_DEFER THEN [phy |-> ph, res |-> cg, ops |-> og, enabled |-> FALSE]
       ELSE IF cg # 0 THEN [phy |-> ph, res |-> -EINVAL, ops |-> og, enabled |-> FALSE]
       ELSE LET e == ls1024a_pcie_enable_phy(ph, ci, cm, cp, ce)
            IN [phy |-> e.phy, res |-> e.res, ops |-> og \o e.ops, enabled |-> TRUE]

(* ---------------------------------------------------------------------- *)
(* Interrupt setup                                                         *)
(* ---------------------------------------------------------------------- *)
\* find_intc_node(index): ctrl is TRUE when the "fsl,ls1024a-pci-usb-ctrl" node
\* exists, children the port indexes that have a "pcie%u-interrupt-controller"
\* child
find_intc_node(index, ctrl, children) == ctrl /\ index \in children

\* values of_irq_get() may return: an error code, 0 (no mapping) or an
\* interrupt number
IrqResults == ExtErrs \cup {0, 1}

\* an interrupt setup that lets the port go on without its node
init_irq_ignore_node(node, dom, irq, cr, oldirq) ==
    [res |-> 0, domain |-> FALSE, irq |-> oldirq, req |-> FALSE,
     ops |-> << <<"find_intc_node", "-", IF node THEN 0 ELSE FAILED>> >>]

\* ls1024a_pcie_init_irq(): [res, domain, irq, req, ops]
\*   node: find_intc_node() found the node, dom: irq_domain_add_linear()
\*   returned a domain, irq: result of of_irq_get(), cr: result of
\*   devm_request_irq()
ls1024a_pcie_init_irq(node, dom, irq, cr, oldirq) ==
    LET o1 == << <<"find_intc_node", "-", IF node THEN 0 ELSE FAILED>> >>
        o2 == Append(o1, <<"irq_domain_add_linear", "-", IF dom THEN 0 ELSE FAILED>>)
        o3 == Append(o2, <<"of_irq_get", "-", IF irq < 0 THEN irq ELSE 0>>)
        o4 == Append(o3, <<"devm_request_irq", "-", cr>>)
    IN IF ~node THEN
            [res |-> -ENODEV, domain |-> FALSE, irq |-> oldirq, req |-> FALSE, ops |-> o1]
       ELSE IF ~dom THEN
            [res |-> -ENODEV, domain |-> FALSE, irq |-> oldirq, req |-> FALSE, ops |-> o2]
       ELSE IF irq < 0 THEN
            [res |-> irq, domain |-> TRUE, irq |-> irq, req |-> FALSE, ops |-> o3]
       ELSE IF cr # 0 THEN
            [res |-> cr, domain |-> TRUE, irq |-> irq, req |-> FALSE, ops |-> o4]
       ELSE [res |-> 0, domain |-> TRUE, irq |-> irq, req |-> TRUE, ops |-> o4]

\* dw_pcie_host_init(): the host-controller framework takes the port over
\* (link start, enumeration); ch is its result
dw_pcie_host_init(ch) ==
    [res |-> ch, host |-> (ch = 0), ops |-> << <<"dw_pcie_host_init", "-", ch>> >>]

\* ls1024a_add_pcie_port(): interrupt setup, then the hand-over
ls1024a_add_pcie_port(node, dom, irq, cr, ch, oldirq) ==
    LET i == ls1024a_pcie_init_irq(node, dom, irq, cr, oldirq)
        h == dw_pcie_host_init(ch)
    IN IF i.res < 0 THEN
            [res |-> i.res, domain |-> i.domain, irq |-> i.irq, req |-> i.req,
             host |-> FALSE, ops |-> i.ops]
       ELSE [res |-> h.res, domain |-> i.domain, irq |-> i.irq, req |-> i.req,
             host |-> h.host, ops |-> i.ops \o h.ops]

(* ---------------------------------------------------------------------- *)
(* ls1024a_reset_setup()                                                   *)
(* ---------------------------------------------------------------------- *)
GetOrder == <<"axi", "power", "regs">>

\* the three devm_reset_control_get_exclusive() calls: first error wins
RECURSIVE ResetGets(_, _, _)
ResetGets(order, g, done) ==
    IF order = <<>> THEN [res |-> 0, ops |-> done]
    ELSE LET d == Head(order)
             log == Append(done, <<"devm_reset_control_get_exclusive", d, g[d]>>)
         IN IF g[d] # 0 THEN [res |-> g[d], ops |-> log]
            ELSE ResetGets(Tail(order), g, log)

ls1024a_reset_setup(rs, g, fa) ==
    LET gt == ResetGets(GetOrder, g, <<>>)
    IN IF gt.res # 0 THEN [resets |-> rs, res |-> gt.res, ops |-> gt.ops, asserted |-> FALSE]
       ELSE LET a == ls1024a_reset_assert(rs, fa)
            IN [resets |-> a.resets, res |-> a.res, ops |-> gt.ops \o a.ops,
                asserted |-> TRUE]

(* ---------------------------------------------------------------------- *)
(* The register bank                                                       *)
(* ---------------------------------------------------------------------- *)
PCIEx_CFGx(port, reg) == (port * 32) + (reg * 4)
PCIEx_STSx(port, reg) == 64 + (port * 12) + (reg * 4)
PCIEx_INTR_STS(port) == 256 + (port * 16)
PCIEx_INTR_EN(port) == 260 + (port * 16)

Ports == 0..1
Offsets == UNION {{PCIEx_CFGx(q, 0), PCIEx_CFGx(q, 5), PCIEx_STSx(q, 0),
                   PCIEx_INTR_STS(q), PCIEx_INTR_EN(q)} : q \in Ports}
\* the interrupt status registers clear the bits written as 1
W1C == {PCIEx_INTR_STS(q) : q \in Ports}

regmap_read(rg, reg) == rg[reg]
regmap_write(rg, reg, val) ==
    [rg EXCEPT ![reg] = IF reg \in W1C THEN rg[reg] \ val ELSE val]
\* regmap_write_bits(): one locked read-modify-write of the bits in mask
regmap_write_bits(rg, reg, mask, val) ==
    regmap_write(rg, reg, (regmap_read(rg, reg) \ mask) \cup (val \cap mask))

(* ---------------------------------------------------------------------- *)
(* Link controller                                                         *)
(* ---------------------------------------------------------------------- *)
\* a link_up that trusts the PHY link-up bit
link_up_xmlh(val) ==
    IF (val \cap STS0_XMLH_LINK_UP) = STS0_XMLH_LINK_UP THEN 1 ELSE 0

\* ls1024a_pcie_link_up(): val is PCIEx_STS0 as read by the call
ls1024a_pcie_link_up(val) ==
    IF (val \cap STS0_RDLH_LINK_UP) = STS0_RDLH_LINK_UP THEN 1 ELSE 0

\* an establish_link that always stops the LTSSM first
AfterCheck1_always_off(up) == "ltssm_off"

\* ls1024a_pcie_establish_link(): where it goes after each link-up test
AfterCheck1(up) == IF up = 0 THEN "ltssm_off" ELSE "set_type"
AfterCheck2(up) == IF up = 0 THEN "ltssm_on" ELSE "wait"

\* an LTSSM start that writes the two bits alone
Cfg5LtssmOn_bits_only(val) == CFG5_LTSSM_EN \cup CFG5_APP_INIT_RST

\* ... and the values it writes, from the value it read
Cfg5LtssmOff(val) == val \ CFG5_LTSSM_EN
Cfg0RootComplex(val) == (val \ CFG0_DEV_TYPE_MASK) \cup CFG0_DEV_TYPE_RC
Cfg5LtssmOn(val) == val \cup (CFG5_LTSSM_EN \cup CFG5_APP_INIT_RST)

\* polls dw_pcie_wait_for_link() makes before it gives up
MaxWait == 2

NoLinkUp == [val |-> {}, ret |-> -1]
NoStart == [up1 |-> -1, up2 |-> -1, writes |-> <<>>, polls |-> 0, ret |-> -1,
            cfg0 |-> {}, cfg5 |-> {}]

\* the hardware changes the link status register at any time
Sts0Bits == STS0_RDLH_LINK_UP \cup STS0_XMLH_LINK_UP \cup STS0_LINK_REQ_RST_NOT
HwLinkStatus ==
    /\ \E v \in SUBSET Sts0Bits :
          /\ v # regs[PCIEx_STSx(port_idx, 0)]
          /\ regs' = [regs EXCEPT ![PCIEx_STSx(port_idx, 0)] = v]
    /\ UNCHANGED <<resVars, probeVars, linkVars, irqVars>>

\* ls1024a_pcie_link_up() called by the host framework
LinkUpQuery ==
    /\ LET val == regmap_read(regs, PCIEx_STSx(port_idx, 0))
       IN lu' = [val |-> val, ret |-> ls1024a_pcie_link_up(val)]
    /\ UNCHANGED <<resVars, probeVars, regs, sl_pc, sl, irqVars>>

\* ls1024a_pcie_start_link() is entered
StartLink ==
    /\ sl_pc = "idle"
    /\ sl_pc' = "check1"
    /\ sl' = [NoStart EXCEPT !.cfg0 = regs[PCIEx_CFGx(port_idx, 0)],
                             !.cfg5 = regs[PCIEx_CFGx(port_idx, 5)]]
    /\ UNCHANGED <<resVars, probeVars, regs, lu, irqVars>>

\* if (!dw_pcie_link_up(pci))
StartLinkCheck1 ==
    /\ sl_pc = "check1"
    /\ LET val == regmap_read(regs, PCIEx_STSx(port_idx, 0))
           up == ls1024a_pcie_link_up(val)
       IN /\ sl' = [sl EXCEPT !.up1 = up]
          /\ sl_pc' = AfterCheck1(up)
    /\ UNCHANGED <<resVars, probeVars, regs, lu, irqVars>>

\* val &= ~CFG5_LTSSM_EN on PCIEx_CFG5
StartLinkLtssmOff ==
    /\ sl_pc = "ltssm_off"
    /\ LET reg == PCIEx_CFGx(port_idx, 5)
           old == regmap_read(regs, reg)
           val == Cfg5LtssmOff(old)
       IN /\ regs' = regmap_write(regs, reg, val)
          /\ sl' = [sl EXCEPT !.writes = Append(@, <<reg, val, old>>)]
    /\ sl_pc' = "set_type"
    /\ UNCHANGED <<resVars, probeVars, lu, irqVars>>

\* device type = root complex on PCIEx_CFG0
StartLinkSetType ==
    /\ sl_pc = "set_type"
    /\ LET reg == PCIEx_CFGx(port_idx, 0)
           old == regmap_read(regs, reg)
           val == Cfg0RootComplex(old)
       IN /\ regs' = regmap_write(regs, reg, val)
          /\ sl' = [sl EXCEPT !.writes = Append(@, <<reg, val, old>>)]
    /\ sl_pc' = "check2"
    /\ UNCHANGED <<resVars, probeVars, lu, irqVars>>

\* if (!dw_pcie_link_up(pci)), second time
StartLinkCheck2 ==
    /\ sl_pc = "check2"
    /\ LET val == regmap_read(regs, PCIEx_STSx(port_idx, 0))
           up == ls1024a_pcie_link_up(val)
       IN /\ sl' = [sl EXCEPT !.up2 = up]
          /\ sl_pc' = AfterCheck2(up)
    /\ UNCHANGED <<resVars, probeVars, regs, lu, irqVars>>

\* val |= CFG5_LTSSM_EN | CFG5_APP_INIT_RST on PCIEx_CFG5
StartLinkLtssmOn ==
    /\ sl_pc = "ltssm_on"
    /\ LET reg == PCIEx_CFGx(port_idx, 5)
           old == regmap_read(regs, reg)
           val == Cfg5LtssmOn(old)
       IN /\ regs' = regmap_write(regs, reg, val)
          /\ sl' = [sl EXCEPT !.writes = Append(@, <<reg, val, old>>)]
    /\ sl_pc' = "wait"
    /\ UNCHANGED <<resVars, probeVars, lu, irqVars>>

\* dw_pcie_wait_for_link(): one poll of the link status
StartLinkWait ==
    /\ sl_pc = "wait"
    /\ LET val == regmap_read(regs, PCIEx_STSx(port_idx, 0))
           up == ls1024a_pcie_link_up(val)
       IN /\ sl' = [sl EXCEPT !.polls = @ + 1]
          /\ sl_pc' = IF up = 1 \/ sl.polls + 1 >= MaxWait THEN "return" ELSE "wait"
    /\ UNCHANGED <<resVars, probeVars, regs, lu, irqVars>>

\* a start_link that reports the timeout of the wait to the framework
StartLinkReturn_timeout_fatal ==
    /\ sl_pc = "return"
    /\ sl' = [sl EXCEPT !.ret =
                 IF ls1024a_pcie_link_up(regmap_read(regs, PCIEx_STSx(port_idx, 0))) = 1
                 THEN 0 ELSE -ENODEV]
    /\ sl_pc' = "idle"
    /\ UNCHANGED <<resVars, probeVars, regs, lu, irqVars>>

\* return 0;
StartLinkReturn ==
    /\ sl_pc = "return"
    /\ sl' = [sl EXCEPT !.ret = 0]
    /\ sl_pc' = "idle"
    /\ UNCHANGED <<resVars, probeVars, regs, lu, irqVars>>

(* ---------------------------------------------------------------------- *)
(* Interrupt mux                                                           *)
(* ---------------------------------------------------------------------- *)
Slots == 0..(LS1024A_PCIE_INTC_NUM_INTS - 1)
UsedSlots == {LS1024A_PCIE_INTC_INTA, LS1024A_PCIE_INTC_INTB, LS1024A_PCIE_INTC_INTC,
              LS1024A_PCIE_INTC_INTD, LS1024A_PCIE_INTC_MSI}

\* an unmask that writes the bit with a plain register write
unmask_irq_plain_write(rg, port, hwirq) ==
    regmap_write(rg, PCIEx_INTR_EN(port), BIT(hwirq))

\* ls1024a_pcie_mask_irq() / ls1024a_pcie_unmask_irq()
ls1024a_pcie_mask_irq(rg, port, hwirq) ==
    regmap_write_bits(rg, PCIEx_INTR_EN(port), BIT(hwirq), {})
ls1024a_pcie_unmask_irq(rg, port, hwirq) ==
    regmap_write_bits(rg, PCIEx_INTR_EN(port), BIT(hwirq), BIT(hwirq))

\* irq_find_mapping(): the virtual IRQ of a slot, 0 when none is mapped
Virq(hwirq) == hwirq + 1
irq_find_mapping(mapped, hwirq) == IF hwirq \in mapped THEN Virq(hwirq) ELSE 0
\* generic_handle_irq() after the `if (virq)` test
HandleIfMapped(log, virq) == IF virq # 0 THEN Append(log, virq) ELSE log

intx_mask == PCIE_INTR_INTA_ASSERT \cup PCIE_INTR_INTB_ASSERT
             \cup PCIE_INTR_INTC_ASSERT \cup PCIE_INTR_INTD_ASSERT

\* a dispatch that serves only the first asserted INTx line
intc_handler_first_intx_only(status, mapped) ==
    LET h0 == IF status \cap PCIE_INTR_MSI # {}
              THEN HandleIfMapped(<<>>, irq_find_mapping(mapped, LS1024A_PCIE_INTC_MSI))
              ELSE <<>>
    IN IF status \cap PCIE_INTR_INTA_ASSERT # {}
       THEN HandleIfMapped(h0, irq_find_mapping(mapped, LS1024A_PCIE_INTC_INTA))
       ELSE IF status \cap PCIE_INTR_INTB_ASSERT # {}
       THEN HandleIfMapped(h0, irq_find_mapping(mapped, LS1024A_PCIE_INTC_INTB))
       ELSE IF status \cap PCIE_INTR_INTC_ASSERT # {}
       THEN HandleIfMapped(h0, irq_find_mapping(mapped, LS1024A_PCIE_INTC_INTC))
       ELSE IF status \cap PCIE_INTR_INTD_ASSERT # {}
       THEN HandleIfMapped(h0, irq_find_mapping(mapped, LS1024A_PCIE_INTC_INTD))
       ELSE h0

\* a dispatch that serves the INTx lines before MSI
intc_handler_intx_first(status, mapped) ==
    LET ha == IF status \cap PCIE_INTR_INTA_ASSERT # {}
              THEN HandleIfMapped(<<>>, irq_find_mapping(mapped, LS1024A_PCIE_INTC_INTA))
              ELSE <<>>
        hb == IF status \cap PCIE_INTR_INTB_ASSERT # {}
              THEN HandleIfMapped(ha, irq_find_mapping(mapped, LS1024A_PCIE_INTC_INTB))
              ELSE ha
        hc == IF status \cap PCIE_INTR_INTC_ASSERT # {}
              THEN HandleIfMapped(hb, irq_find_mapping(mapped, LS1024A_PCIE_INTC_INTC))
              ELSE hb
        hd == IF status \cap PCIE_INTR_INTD_ASSERT # {}
              THEN HandleIfMapped(hc, irq_find_mapping(mapped, LS1024A_PCIE_INTC_INTD))
              ELSE hc
    IN IF status \cap PCIE_INTR_MSI # {}
       THEN HandleIfMapped(hd, irq_find_mapping(mapped, LS1024A_PCIE_INTC_MSI))
       ELSE hd

\* ls1024a_pcie_intc_handler() after the acknowledge: the virtual IRQs it
\* hands to generic_handle_irq(), in order
intc_handler_virqs(status, mapped) ==
    LET h0 == IF status \cap PCIE_INTR_MSI # {}
              THEN HandleIfMapped(<<>>, irq_find_mapping(mapped, LS1024A_PCIE_INTC_MSI))
              ELSE <<>>
        ha == IF status \cap PCIE_INTR_INTA_ASSERT # {}
              THEN HandleIfMapped(h0, irq_find_mapping(mapped, LS1024A_PCIE_INTC_INTA))
              ELSE h0
        hb == IF status \cap PCIE_INTR_INTB_ASSERT # {}
              THEN HandleIfMapped(ha, irq_find_mapping(mapped, LS1024A_PCIE_INTC_INTB))
              ELSE ha
        hc == IF status \cap PCIE_INTR_INTC_ASSERT # {}
              THEN HandleIfMapped(hb, irq_find_mapping(mapped, LS1024A_PCIE_INTC_INTC))
              ELSE hb
        hd == IF status \cap PCIE_INTR_INTD_ASSERT # {}
              THEN HandleIfMapped(hc, irq_find_mapping(mapped, LS1024A_PCIE_INTC_INTD))
              ELSE hc
    IN IF status \cap intx_mask # {} THEN hd ELSE h0

\* ... and the value it returns to the interrupt core
intc_handler_ret(status) == "IRQ_HANDLED"

NoDispatch == [status |-> {}, acks |-> <<>>, handled |-> <<>>, ret |-> "none",
               late |-> {}, masked |-> {}]
NoEdges == [h \in Slots |-> 0]

\* an acknowledge that clears the whole status register
intc_handler_ack_all(status) == Slots

\* the value ls1024a_pcie_intc_handler() writes back to PCIEx_INTR_STS
intc_handler_ack(status) == status

\* how often the handler of slot h is invoked in the list `handled`
Invocations(handled, h) ==
    Cardinality({i \in 1..Len(handled) : handled[i] = Virq(h)})
NoMask == [seq |-> "none", slot |-> 0, start |-> {}]

\* contexts that call mask/unmask concurrently, each on a slot of its own
MaxCallers == 2
Callers == 1..MaxCallers
CallerSlot(t) == <<LS1024A_PCIE_INTC_INTA, LS1024A_PCIE_INTC_MSI,
                   LS1024A_PCIE_INTC_INTC, LS1024A_PCIE_INTC_INTD>>[t]

NoCaller == [pc |-> "idle", op |-> "none", tmp |-> {}, last |-> "none"]

\* slots whose last mask/unmask call was a mask that has returned
MaskedByCallers ==
    {CallerSlot(t) : t \in {u \in Callers : callers[u].pc = "idle" /\ callers[u].last = "mask"}}

\* regmap_read(PCIEx_INTR_STS): the snapshot; `masked` keeps the slots that
\* stay masked by their callers for the whole dispatch
DispatchRead ==
    /\ d_pc = "idle"
    /\ disp' = [NoDispatch EXCEPT !.status = regmap_read(regs, PCIEx_INTR_STS(port_idx)),
                                  !.masked = MaskedByCallers]
    /\ d_pc' = "ack"
    /\ UNCHANGED <<resVars, probeVars, regs, linkVars, virq_map, mk, concVars, hwVars>>

\* regmap_write(PCIEx_INTR_STS, status): the acknowledge
DispatchAck ==
    /\ d_pc = "ack"
    /\ regs' = regmap_write(regs, PCIEx_INTR_STS(port_idx), intc_handler_ack(disp.status))
    /\ disp' = [disp EXCEPT !.acks = Append(@, intc_handler_ack(disp.status))]
    /\ d_pc' = "sub"
    /\ UNCHANGED <<resVars, probeVars, linkVars, virq_map, mk, concVars, hwVars>>

\* the sub-dispatch and return IRQ_HANDLED
DispatchHandlers ==
    /\ d_pc = "sub"
    /\ disp' = [disp EXCEPT !.handled = intc_handler_virqs(disp.status, virq_map),
                            !.ret = intc_handler_ret(disp.status)]
    /\ invoked' = [h \in Slots |->
                     invoked[h] + Invocations(intc_handler_virqs(disp.status, virq_map), h)]
    /\ d_pc' = "idle"
    /\ UNCHANGED <<resVars, probeVars, regs, linkVars, virq_map, mk, concVars, edges>>

\* most interrupt edges the hardware raises in one run
MaxEdges == 3
\* the slots it raises them on: two that the handler serves and one it does not
HwSlots == {LS1024A_PCIE_INTC_INTA, 1, LS1024A_PCIE_INTC_MSI}
TotalEdges == edges[LS1024A_PCIE_INTC_INTA] + edges[1] + edges[LS1024A_PCIE_INTC_MSI]

\* the hardware sets a status bit that was clear, at any moment; `late`
\* notes the bits set between the handler's read and its acknowledge
HwIrqRaise ==
    /\ TotalEdges < MaxEdges
    /\ \E h \in HwSlots \ regs[PCIEx_INTR_STS(port_idx)] :
          /\ regs' = [regs EXCEPT ![PCIEx_INTR_STS(port_idx)] = @ \cup BIT(h)]
          /\ edges' = [edges EXCEPT ![h] = @ + 1]
          /\ disp' = IF d_pc = "ack" THEN [disp EXCEPT !.late = @ \cup BIT(h)] ELSE disp
    /\ UNCHANGED <<resVars, probeVars, linkVars, virq_map, d_pc, mk, concVars, invoked>>

\* a consumer masks / unmasks a slot
MaskIrq ==
    /\ \E hwirq \in Slots :
          /\ regs' = ls1024a_pcie_mask_irq(regs, port_idx, hwirq)
          /\ mk' = [seq |-> "mask", slot |-> hwirq,
                    start |-> regs[PCIEx_INTR_EN(port_idx)]]
    /\ UNCHANGED <<resVars, probeVars, linkVars, virq_map, d_pc, disp, concVars, hwVars>>

UnmaskIrq ==
    /\ \E hwirq \in Slots :
          /\ regs' = ls1024a_pcie_unmask_irq(regs, port_idx, hwirq)
          /\ mk' = IF mk.seq = "mask" /\ mk.slot = hwirq
                   THEN [mk EXCEPT !.seq = "mask_unmask"]
                   ELSE NoMask
    /\ UNCHANGED <<resVars, probeVars, linkVars, virq_map, d_pc, disp, concVars, hwVars>>

(* ---------------------------------------------------------------------- *)
(* mask/unmask called from several contexts at once.  regmap_write_bits()  *)
(* takes the regmap's lock, reads the register, writes it back with the    *)
(* masked bits replaced and drops the lock.                                *)
(* ---------------------------------------------------------------------- *)
\* an unmask that reads the register and writes it back in two accesses
unmask_irq_access_unlocked(hwirq) ==
    [fn |-> "regmap_read,regmap_write", mask |-> BIT(hwirq), val |-> BIT(hwirq)]

\* the register access ls1024a_pcie_mask_irq() / ls1024a_pcie_unmask_irq()
\* make on PCIEx_INTR_EN
mask_irq_access(hwirq) ==
    [fn |-> "regmap_write_bits", mask |-> BIT(hwirq), val |-> {}]
unmask_irq_access(hwirq) ==
    [fn |-> "regmap_write_bits", mask |-> BIT(hwirq), val |-> BIT(hwirq)]

CallerAccess(t) ==
    IF callers[t].op = "mask" THEN mask_irq_access(CallerSlot(t))
    ELSE unmask_irq_access(CallerSlot(t))

\* a context enters mask (op = "mask") or unmask of its slot
CallerEnter(t) ==
    /\ callers[t].pc = "idle"
    /\ \E op \in {"mask", "unmask"} :
          callers' = [callers EXCEPT ![t] = [pc |-> "lock", op |-> op,
                                             tmp |-> {}, last |-> "none"]]
    /\ disp' = [disp EXCEPT !.masked = @ \ {CallerSlot(t)}]
    /\ UNCHANGED <<resVars, probeVars, regs, linkVars, virq_map, d_pc, mk,
                   regmap_lock, en_start, hwVars>>

\* map->lock(): regmap_write_bits() waits for the lock and takes it
CallerLock(t) ==
    /\ callers[t].pc = "lock"
    /\ CallerAccess(t).fn = "regmap_write_bits" => regmap_lock = 0
    /\ regmap_lock' = IF CallerAccess(t).fn = "regmap_write_bits" THEN t ELSE regmap_lock
    /\ callers' = [callers EXCEPT ![t].pc = "read"]
    /\ UNCHANGED <<resVars, probeVars, regs, linkVars, virq_map, d_pc, disp, mk, en_start, hwVars>>

\* the read of the read-modify-write
CallerRead(t) ==
    /\ callers[t].pc = "read"
    /\ callers' = [callers EXCEPT ![t].pc = "write",
                                  ![t].tmp = regmap_read(regs, PCIEx_INTR_EN(port_idx))]
    /\ UNCHANGED <<resVars, probeVars, regs, linkVars, virq_map, d_pc, disp, mk,
                   regmap_lock, en_start, hwVars>>

\* the write of the read-modify-write
CallerWrite(t) ==
    /\ callers[t].pc = "write"
    /\ LET a == CallerAccess(t)
       IN regs' = regmap_write(regs, PCIEx_INTR_EN(port_idx),
                               (callers[t].tmp \ a.mask) \cup (a.val \cap a.mask))
    /\ callers' = [callers EXCEPT ![t].pc = "unlock", ![t].tmp = {}]
    /\ UNCHANGED <<resVars, probeVars, linkVars, virq_map, d_pc, disp, mk,
                   regmap_lock, en_start, hwVars>>

\* map->unlock() and return
CallerUnlock(t) ==
    /\ callers[t].pc = "unlock"
    /\ regmap_lock' = IF regmap_lock = t THEN 0 ELSE regmap_lock
    /\ callers' = [callers EXCEPT ![t].pc = "idle", ![t].last = callers[t].op]
    /\ UNCHANGED <<resVars, probeVars, regs, linkVars, virq_map, d_pc, disp, mk, en_start, hwVars>>

(* ---------------------------------------------------------------------- *)
(* ls1024a_pcie_probe(), one action per statement that can fail or that    *)
(* releases a resource                                                     *)
(* ---------------------------------------------------------------------- *)
NoCall == [op |-> "none", res |-> 0, ops |-> <<>>, pre |-> [d \in Domains |-> TRUE]]
NoPhyCall == [op |-> "none", res |-> 0, ops |-> <<>>, post |-> PhyOff]

\* a rollback that reports its own failure
RollbackRet_overwrite(r, c) == IF c # 0 THEN c ELSE r

\* the value a rollback label leaves in `ret`: the labels call
\* ls1024a_reset_assert() and ls1024a_pcie_disable_phy() as statements
RollbackRet(r, c) == r

\* the two devm_kzalloc() calls
ProbeAlloc ==
    /\ p_pc = "alloc"
    /\ \E ok1 \in BOOLEAN, ok2 \in BOOLEAN :
        LET o1 == << <<"devm_kzalloc", "pcie", IF ok1 THEN 0 ELSE FAILED>> >>
            o2 == Append(o1, <<"devm_kzalloc", "pci", IF ok2 THEN 0 ELSE FAILED>>)
        IN IF ~ok1 THEN /\ trace' = trace \o o1
                        /\ ret' = -ENOMEM /\ p_pc' = "done"
           ELSE IF ~ok2 THEN /\ trace' = trace \o o2
                             /\ ret' = -ENOMEM /\ p_pc' = "done"
           ELSE /\ trace' = trace \o o2
                /\ ret' = ret /\ p_pc' = "port_index"
    /\ UNCHANGED <<resVars, port_idx, irq_domain, pp_irq, irq_req, host, rtVars>>

\* of_property_read_u32("fsl,port-index") and the range check
ProbePortIndex ==
    /\ p_pc = "port_index"
    /\ \E c \in Codes, port \in 0..MaxPort :
        LET bad == c # 0 \/ port > 1
            o1 == << <<"of_property_read_u32", "fsl,port-index",
                       IF c # 0 THEN c ELSE IF port > 1 THEN FAILED ELSE 0>> >>
        IN /\ trace' = trace \o o1
           /\ IF bad THEN /\ ret' = -EINVAL /\ p_pc' = "done" /\ port_idx' = port_idx
              ELSE /\ ret' = c /\ p_pc' = "syscon" /\ port_idx' = port
    /\ UNCHANGED <<resVars, irq_domain, pp_irq, irq_req, host, rtVars>>

\* syscon_regmap_lookup_by_compatible()
ProbeSyscon ==
    /\ p_pc = "syscon"
    /\ \E c \in Codes :
        /\ trace' = Append(trace, <<"syscon_regmap_lookup_by_compatible", "-", c>>)
        /\ IF c # 0 THEN ret' = c /\ p_pc' = "done"
           ELSE ret' = ret /\ p_pc' = "clk_get"
    /\ UNCHANGED <<resVars, port_idx, irq_domain, pp_irq, irq_req, host, rtVars>>

\* devm_clk_get("axi")
ProbeClkGet ==
    /\ p_pc = "clk_get"
    /\ \E c \in Codes :
        /\ trace' = Append(trace, <<"devm_clk_get", "axi", c>>)
        /\ IF c # 0 THEN ret' = c /\ p_pc' = "done"
           ELSE ret' = ret /\ p_pc' = "reset_setup"
    /\ UNCHANGED <<resVars, port_idx, irq_domain, pp_irq, irq_req, host, rtVars>>

\* ret = ls1024a_reset_setup(pcie); if (ret) return ret;
ProbeResetSetup ==
    /\ p_pc = "reset_setup"
    /\ \E g \in [Domains -> Codes], fa \in [Domains -> Codes] :
        LET r == ls1024a_reset_setup(resets, g, fa)
        IN /\ resets' = r.resets
           /\ rc' = IF r.asserted
                    THEN [op |-> "assert", res |-> r.res,
                          ops |-> SubSeq(r.ops, 4, Len(r.ops)), pre |-> resets]
                    ELSE rc
           /\ trace' = trace \o r.ops
           /\ ret' = r.res
           /\ p_pc' = IF r.res # 0 THEN "done" ELSE "clk_enable"
    /\ UNCHANGED <<clk, phy, phc, port_idx, irq_domain, pp_irq, irq_req, host, rtVars>>

\* ret = clk_prepare_enable(pcie->clk); if (ret) goto fail_reset;
ProbeClkEnable ==
    /\ p_pc = "clk_enable"
    /\ \E c \in Codes :
        /\ clk' = (c = 0)
        /\ trace' = Append(trace, <<"clk_prepare_enable", "-", c>>)
        /\ ret' = c
        /\ p_pc' = IF c # 0 THEN "fail_reset" ELSE "setup_phy"
    /\ UNCHANGED <<resets, phy, rc, phc, port_idx, irq_domain, pp_irq, irq_req, host, rtVars>>

\* ret = ls1024a_pcie_setup_phy(pcie); if (ret) goto fail_clk;
ProbeSetupPhy ==
    /\ p_pc = "setup_phy"
    /\ \E cg \in Codes \cup {-EPROBE_DEFER}, ci \in Codes, cm \in Codes,
          cp \in Codes, ce \in Codes :
        LET r == ls1024a_pcie_setup_phy(phy, cg, ci, cm, cp, ce)
        IN /\ phy' = r.phy
           /\ phc' = IF r.enabled
                     THEN [op |-> "enable", res |-> r.res,
                           ops |-> Tail(r.ops), post |-> r.phy]
                     ELSE phc
           /\ trace' = trace \o r.ops
           /\ ret' = r.res
           /\ p_pc' = IF r.res # 0 THEN "fail_clk" ELSE "reset_deassert"
    /\ UNCHANGED <<resets, clk, rc, port_idx, irq_domain, pp_irq, irq_req, host, rtVars>>

\* ret = ls1024a_reset_deassert(pcie); if (ret) goto disable_phy;
ProbeResetDeassert ==
    /\ p_pc = "reset_deassert"
    /\ \E fd \in [Domains -> Codes], fa \in [Domains -> Codes] :
        LET r == ls1024a_reset_deassert(resets, fd, fa)
        IN /\ resets' = r.resets
           /\ rc' = [op |-> "deassert", res |-> r.res, ops |-> r.ops, pre |-> resets]
           /\ trace' = trace \o r.ops
           /\ ret' = r.res
           /\ p_pc' = IF r.res # 0 THEN "disable_phy" ELSE "remap"
    /\ UNCHANGED <<clk, phy, phc, port_idx, irq_domain, pp_irq, irq_req, host, rtVars>>

\* devm_pci_remap_cfg_resource("dbi"); on error goto reset
ProbeRemap ==
    /\ p_pc = "remap"
    /\ \E c \in Codes :
        /\ trace' = Append(trace, <<"devm_pci_remap_cfg_resource", "dbi", c>>)
        /\ IF c # 0 THEN ret' = c /\ p_pc' = "reset"
           ELSE ret' = ret /\ p_pc' = "add_port"
    /\ UNCHANGED <<resVars, port_idx, irq_domain, pp_irq, irq_req, host, rtVars>>

\* ret = ls1024a_add_pcie_port(pcie, pdev); if (ret) goto reset; return 0;
ProbeAddPort ==
    /\ p_pc = "add_port"
    /\ \E ctrl \in BOOLEAN, children \in SUBSET (0..1), dom \in BOOLEAN,
          irq \in IrqResults, cr \in Codes, ch \in Codes :
        LET r == ls1024a_add_pcie_port(find_intc_node(port_idx, ctrl, children),
                                       dom, irq, cr, ch, pp_irq)
        IN /\ irq_domain' = r.domain
           /\ pp_irq' = r.irq
           /\ irq_req' = r.req
           /\ host' = r.host
           /\ trace' = trace \o r.ops
           /\ ret' = r.res
           /\ p_pc' = IF r.res # 0 THEN "reset" ELSE "done"
    /\ UNCHANGED <<resVars, port_idx, rtVars>>

\* reset: ls1024a_reset_assert(pcie);
ProbeLabelReset ==
    /\ p_pc = "reset"
    /\ \E fa \in [Domains -> Codes] :
        LET r == ls1024a_reset_assert(resets, fa)
        IN /\ resets' = r.resets
           /\ rc' = [op |-> "assert", res |-> r.res, ops |-> r.ops, pre |-> resets]
           /\ trace' = trace \o r.ops
           /\ ret' = RollbackRet(ret, r.res)
           /\ p_pc' = "disable_phy"
    /\ UNCHANGED <<clk, phy, phc, port_idx, irq_domain, pp_irq, irq_req, host, rtVars>>

\* disable_phy: ls1024a_pcie_disable_phy(pcie);
ProbeLabelDisablePhy ==
    /\ p_pc = "disable_phy"
    /\ \E co \in Codes, ce \in Codes :
        LET r == ls1024a_pcie_disable_phy(phy, co, ce)
        IN /\ phy' = r.phy
           /\ trace' = trace \o r.ops
           /\ ret' = RollbackRet(ret, IF co # 0 THEN co ELSE ce)
           /\ p_pc' = "fail_clk"
    /\ UNCHANGED <<resets, clk, rc, phc, port_idx, irq_domain, pp_irq, irq_req, host, rtVars>>

\* fail_clk: clk_disable_unprepare(pcie->clk);
ProbeLabelFailClk ==
    /\ p_pc = "fail_clk"
    /\ clk' = FALSE
    /\ trace' = Append(trace, <<"clk_disable_unprepare", "-", 0>>)
    /\ p_pc' = "fail_reset"
    /\ UNCHANGED <<resets, phy, rc, phc, ret, port_idx, irq_domain, pp_irq, irq_req, host, rtVars>>

\* fail_reset: return ret;
ProbeLabelFailReset ==
    /\ p_pc = "fail_reset"
    /\ p_pc' = "done"
    /\ UNCHANGED <<resVars, ret, trace, port_idx, irq_domain, pp_irq, irq_req, host, rtVars>>

\* nothing of the link controller or the interrupt mux has run
RegsZero == [o \in Offsets |-> {}]
RuntimeIdle ==
    /\ sl_pc = "idle"
    /\ sl = NoStart
    /\ lu = NoLinkUp
    /\ d_pc = "idle"
    /\ disp = NoDispatch
    /\ mk = NoMask
    /\ regmap_lock = 0
    /\ callers = [t \in Callers |-> NoCaller]
    /\ en_start = {}
    /\ edges = NoEdges
    /\ invoked = NoEdges

\* The device before probe: the reset lines are in whatever state the boot
\* left them, nothing else is held.
Init ==
    /\ resets \in [Domains -> BOOLEAN]
    /\ clk = FALSE
    /\ phy = PhyOff
    /\ rc = NoCall
    /\ phc = NoPhyCall
    /\ p_pc = "alloc"
    /\ ret = 0
    /\ trace = <<>>
    /\ port_idx = 0
    /\ irq_domain = FALSE
    /\ pp_irq = 0
    /\ irq_req = FALSE
    /\ host = FALSE
    /\ regs = RegsZero
    /\ virq_map = {}
    /\ RuntimeIdle

Next ==
    \/ ProbeAlloc
    \/ ProbePortIndex
    \/ ProbeSyscon
    \/ ProbeClkGet
    \/ ProbeResetSetup
    \/ ProbeClkEnable
    \/ ProbeSetupPhy
    \/ ProbeResetDeassert
    \/ ProbeRemap
    \/ ProbeAddPort
    \/ ProbeLabelReset
    \/ ProbeLabelDisablePhy
    \/ ProbeLabelFailClk
    \/ ProbeLabelFailReset

Spec == Init /\ [][Next]_vars

(* ---------------------------------------------------------------------- *)
(* The reset sequencer on its own, from every state of the three lines     *)
(* ---------------------------------------------------------------------- *)
ResetAssertCall ==
    \E f \in [Domains -> Codes] :
        LET r == ls1024a_reset_assert(resets, f)
        IN /\ resets' = r.resets
           /\ rc' = [op |-> "assert", res |-> r.res, ops |-> r.ops, pre |-> resets]
           /\ UNCHANGED <<clk, phy, phc, probeVars, rtVars>>

ResetDeassertCall ==
    \E fd \in [Domains -> Codes], fa \in [Domains -> Codes] :
        LET r == ls1024a_reset_deassert(resets, fd, fa)
        IN /\ resets' = r.resets
           /\ rc' = [op |-> "deassert", res |-> r.res, ops |-> r.ops, pre |-> resets]
           /\ UNCHANGED <<clk, phy, phc, probeVars, rtVars>>

InitReset == Init

NextReset == ResetAssertCall \/ ResetDeassertCall

SpecReset == InitReset /\ [][NextReset]_vars

(* ---------------------------------------------------------------------- *)
(* After a successful probe                                                *)
(* ---------------------------------------------------------------------- *)
SuccessTrace ==
    << <<"devm_kzalloc", "pcie", 0>>, <<"devm_kzalloc", "pci", 0>>,
       <<"of_property_read_u32", "fsl,port-index", 0>>,
       <<"syscon_regmap_lookup_by_compatible", "-", 0>>,
       <<"devm_clk_get", "axi", 0>>,
       <<"devm_reset_control_get_exclusive", "axi", 0>>,
       <<"devm_reset_control_get_exclusive", "power", 0>>,
       <<"devm_reset_control_get_exclusive", "regs", 0>>,
       <<"reset_control_assert", "regs", 0>>,
       <<"reset_control_assert", "power", 0>>,
       <<"reset_control_assert", "axi", 0>>,
       <<"clk_prepare_enable", "-", 0>>,
       <<"devm_phy_get", "bus", 0>>,
       <<"phy_init", "-", 0>>, <<"phy_set_mode", "-", 0>>, <<"phy_power_on", "-", 0>>,
       <<"reset_control_deassert", "axi", 0>>,
       <<"reset_control_deassert", "power", 0>>,
       <<"reset_control_deassert", "regs", 0>>,
       <<"devm_pci_remap_cfg_resource", "dbi", 0>>,
       <<"find_intc_node", "-", 0>>, <<"irq_domain_add_linear", "-", 0>>,
       <<"of_irq_get", "-", 0>>, <<"devm_request_irq", "-", 0>>,
       <<"dw_pcie_host_init", "-", 0>> >>

\* the state probe leaves when it returns 0 for port q
Probed(q) ==
    /\ resets = [x \in Domains |-> FALSE]
    /\ clk = TRUE
    /\ phy = [inited |-> TRUE, powered |-> TRUE, mode |-> "PHY_MODE_PCIE"]
    /\ rc = [op |-> "deassert", res |-> 0, ops |-> SubSeq(SuccessTrace, 17, 19),
             pre |-> [x \in Domains |-> TRUE]]
    /\ phc = [op |-> "enable", res |-> 0, ops |-> SubSeq(SuccessTrace, 14, 16),
              post |-> [inited |-> TRUE, powered |-> TRUE, mode |-> "PHY_MODE_PCIE"]]
    /\ p_pc = "done"
    /\ ret = 0
    /\ trace = SuccessTrace
    /\ port_idx = q
    /\ irq_domain = TRUE
    /\ pp_irq = 1
    /\ irq_req = TRUE
    /\ host = TRUE

(* ---------------------------------------------------------------------- *)
(* The link controller under a link status that changes on its own         *)
(* ---------------------------------------------------------------------- *)
\* bit 4 of PCIEx_CFG0 stands for the bits outside the device type field
Cfg0Bits == CFG0_DEV_TYPE_MASK \cup {4}
Cfg5Bits == CFG5_LINK_DOWN_RST \cup CFG5_APP_RDY_L23 \cup CFG5_LTSSM_EN
            \cup CFG5_APP_INIT_RST

InitLink ==
    /\ \E q \in Ports :
          /\ Probed(q)
          /\ \E c0 \in SUBSET Cfg0Bits, c5 \in SUBSET Cfg5Bits, s0 \in SUBSET Sts0Bits :
                regs = [o \in Offsets |->
                          IF o = PCIEx_CFGx(q, 0) THEN c0
                          ELSE IF o = PCIEx_CFGx(q, 5) THEN c5
                          ELSE IF o = PCIEx_STSx(q, 0) THEN s0
                          ELSE IF o = PCIEx_CFGx(1 - q, 5) THEN CFG5_LTSSM_EN
                          ELSE IF o = PCIEx_CFGx(1 - q, 0) THEN CFG0_DEV_TYPE_RC
                          ELSE {}]
    /\ virq_map = {}
    /\ RuntimeIdle

NextLink ==
    \/ HwLinkStatus
    \/ StartLink
    \/ StartLinkCheck1
    \/ StartLinkLtssmOff
    \/ StartLinkSetType
    \/ StartLinkCheck2
    \/ StartLinkLtssmOn
    \/ StartLinkWait
    \/ StartLinkReturn

SpecLink == InitLink /\ [][NextLink]_vars

\* the CPU that entered start_link keeps executing it; nothing is assumed of
\* the hardware or of the callers
StartLinkSteps ==
    \/ StartLinkCheck1
    \/ StartLinkLtssmOff
    \/ StartLinkSetType
    \/ StartLinkCheck2
    \/ StartLinkLtssmOn
    \/ StartLinkWait
    \/ StartLinkReturn

\* every link status and LTSSM setting, the device type either unset or
\* already root complex
InitLinkLive ==
    /\ InitLink
    /\ regs[PCIEx_CFGx(port_idx, 0)] \in {{}, CFG0_DEV_TYPE_RC \cup {4}}

SpecLinkLive == InitLinkLive /\ [][NextLink]_vars /\ WF_vars(StartLinkSteps)

(* ---------------------------------------------------------------------- *)
(* Link-up queries under a link status that changes on its own             *)
(* ---------------------------------------------------------------------- *)
NextLinkUp == HwLinkStatus \/ LinkUpQuery

SpecLinkUp == InitLink /\ [][NextLinkUp]_vars

(* ---------------------------------------------------------------------- *)
(* One interrupt dispatch after another                                    *)
(* ---------------------------------------------------------------------- *)
\* most status bits set at once in the snapshots tried (besides "all")
MaxRaised == 2

StatusChoices ==
    {S \in SUBSET Slots : Cardinality(S) <= MaxRaised} \cup {Slots, UsedSlots}
MapChoices ==
    {U \cup R : U \in SUBSET UsedSlots, R \in {{}, Slots \ UsedSlots}}

InitDispatch ==
    /\ \E q \in Ports :
          /\ Probed(q)
          /\ \E st \in StatusChoices :
                regs = [o \in Offsets |->
                          IF o = PCIEx_INTR_STS(q) THEN st
                          ELSE IF o = PCIEx_INTR_STS(1 - q) THEN UsedSlots
                          ELSE {}]
    /\ virq_map \in MapChoices
    /\ RuntimeIdle

NextDispatch == DispatchRead \/ DispatchAck \/ DispatchHandlers

SpecDispatch == InitDispatch /\ [][NextDispatch]_vars

(* ---------------------------------------------------------------------- *)
(* Consumers masking and unmasking slots                                   *)
(* ---------------------------------------------------------------------- *)
\* port 1: its registers do not sit at the first offsets of the bank
InitMask ==
    /\ \E q \in {1} :
          /\ Probed(q)
          /\ \E en \in SUBSET Slots :
                regs = [o \in Offsets |->
                          IF o = PCIEx_INTR_EN(q) THEN en
                          ELSE IF o = PCIEx_INTR_EN(1 - q) THEN UsedSlots
                          ELSE {}]
    /\ virq_map = UsedSlots
    /\ RuntimeIdle

NextMask == MaskIrq \/ UnmaskIrq

SpecMask == InitMask /\ [][NextMask]_vars

(* ---------------------------------------------------------------------- *)
(* Dispatch while the hardware raises interrupts                           *)
(* ---------------------------------------------------------------------- *)
InitDispatchHw ==
    /\ \E q \in Ports :
          /\ Probed(q)
          /\ regs = [o \in Offsets |->
                       IF o = PCIEx_INTR_STS(1 - q) THEN UsedSlots ELSE {}]
    /\ virq_map = UsedSlots
    /\ RuntimeIdle

NextDispatchHw == HwIrqRaise \/ DispatchRead \/ DispatchAck \/ DispatchHandlers

SpecDispatchHw == InitDispatchHw /\ [][NextDispatchHw]_vars

(* ---------------------------------------------------------------------- *)
(* Consumers masking and unmasking different slots at once, while the      *)
(* interrupt handler runs                                                  *)
(* ---------------------------------------------------------------------- *)
\* values of the enable register the callers start from
EnChoices == {{}, Slots, {LS1024A_PCIE_INTC_INTA, 5, LS1024A_PCIE_INTC_INTD}}

InitConc ==
    /\ \E q \in Ports :
          /\ Probed(q)
          /\ \E en \in EnChoices, st \in {{}, PCIE_INTR_INTA_ASSERT \cup PCIE_INTR_MSI} :
                /\ regs = [o \in Offsets |->
                             IF o = PCIEx_INTR_EN(q) THEN en
                             ELSE IF o = PCIEx_INTR_STS(q) THEN st
                             ELSE IF o = PCIEx_INTR_EN(1 - q) THEN UsedSlots
                             ELSE {}]
                /\ en_start = en
    /\ virq_map = UsedSlots
    /\ sl_pc = "idle" /\ sl = NoStart /\ lu = NoLinkUp
    /\ d_pc = "idle" /\ disp = NoDispatch /\ mk = NoMask
    /\ regmap_lock = 0
    /\ callers = [t \in Callers |-> NoCaller]
    /\ edges = NoEdges
    /\ invoked = NoEdges

NextConc ==
    \/ \E t \in Callers : CallerEnter(t)
    \/ \E t \in Callers : CallerLock(t)
    \/ \E t \in Callers : CallerRead(t)
    \/ \E t \in Callers : CallerWrite(t)
    \/ \E t \in Callers : CallerUnlock(t)
    \/ DispatchRead
    \/ DispatchAck
    \/ DispatchHandlers

SpecConc == InitConc /\ [][NextConc]_vars

(* ---------------------------------------------------------------------- *)
(* Claims                                                                  *)
(* ---------------------------------------------------------------------- *)
\* helpers over a log of calls <<function, argument, result>>
Failing(log) == {i \in 1..Len(log) : log[i][3] # 0}
First(S) == CHOOSE i \in S : \A j \in S : i <= j
Calls(log, fn) == {i \in 1..Len(log) : log[i][1] = fn}
CallsOk(log, fn) == {i \in Calls(log, fn) : log[i][3] = 0}
NumCalls(log, fn) == Cardinality(Calls(log, fn))

\* C1: when ls1024a_reset_deassert() returns an error, all three reset
\* domains are asserted (no partially released combination is left).
C1_DeassertFailureLeavesAllAsserted ==
    (rc.op = "deassert" /\ rc.res # 0) => AllAsserted(resets)

\* a release call is made only after the matching acquire call succeeded
ReleasesAreBalanced ==
    /\ \A i \in Calls(trace, "clk_disable_unprepare") :
          \E j \in CallsOk(trace, "clk_prepare_enable") : j < i
    /\ \A i \in Calls(trace, "phy_power_off") :
          \E j \in CallsOk(trace, "phy_power_on") : j < i
    /\ \A i \in Calls(trace, "phy_exit") :
          \E j \in CallsOk(trace, "phy_init") : j < i

\* probe got past ls1024a_reset_setup(): the resets have been asserted
ResetsWereAsserted == Calls(trace, "clk_prepare_enable") # {}

\* C7: when probe returns an error from any step after the resets were
\* asserted, the clock is disabled, the PHY is powered off and exited, the
\* three reset domains are asserted, and nothing is released that was not
\* acquired before.
C7_FailedProbeLeavesNothingHeld ==
    (p_pc = "done" /\ ret # 0 /\ ResetsWereAsserted) =>
        /\ ~clk
        /\ ~phy.powered
        /\ ~phy.inited
        /\ AllAsserted(resets)
        /\ ReleasesAreBalanced

\* what the calls of ls1024a_pcie_enable_phy() were, whatever its end state
EnablePhyCallsAsClaimed ==
    LET ops == phc.ops
        initOk == ops[1][3] = 0
    IN /\ NumCalls(ops, "phy_power_off") = 0
       /\ (phc.res # 0 /\ ~initOk) => ops = << <<"phy_init", "-", phc.res>> >>
       /\ (phc.res # 0 /\ initOk) =>
             /\ NumCalls(ops, "phy_exit") = 1
             /\ ops[Len(ops)][1] = "phy_exit"
             /\ phc.res = ops[Len(ops) - 1][3]
       /\ phc.res = 0 =>
             /\ NumCalls(ops, "phy_exit") = 0
             /\ phc.post = [inited |-> TRUE, powered |-> TRUE, mode |-> "PHY_MODE_PCIE"]

StepCode(e) ==
    IF e[1] = "devm_kzalloc" THEN -ENOMEM
    ELSE IF e[1] = "of_property_read_u32" THEN -EINVAL
    ELSE IF e[1] \in {"find_intc_node", "irq_domain_add_linear"} THEN -ENODEV
    ELSE IF e[1] = "devm_phy_get" /\ e[3] # -EPROBE_DEFER THEN -EINVAL
    ELSE e[3]

\* C9: probe returns the code of the earliest failing step, whatever the
\* rollback steps after it return: a failing rollback step neither replaces
\* the code nor turns the result into success.
C9_ProbeReturnsFirstError ==
    p_pc = "done" =>
        /\ (ret = 0) <=> (Failing(trace) = {})
        /\ Failing(trace) # {} => ret = StepCode(trace[First(Failing(trace))])

\* C9 witness: probe failed and a later rollback call failed with another code
C9_Witness ==
    /\ p_pc = "done"
    /\ ret # 0
    /\ \E i \in Failing(trace) :
          /\ i > First(Failing(trace))
          /\ trace[i][1] \in {"reset_control_assert", "phy_power_off", "phy_exit"}
          /\ trace[i][3] # ret

\* the per-port interrupt-controller node was not found
NodeUnresolved == \E i \in Calls(trace, "find_intc_node") : trace[i][3] # 0
RollbackCalls == {"reset_control_assert", "phy_power_off", "phy_exit",
                  "clk_disable_unprepare"}

\* C10 as stated: an unresolved interrupt-controller node costs only the
\* interrupts: the port is still handed to the host framework and resets,
\* PHY and clock are not rolled back.
C10_NodeFailureKeepsPort ==
    (p_pc = "done" /\ NodeUnresolved) =>
        /\ Calls(trace, "dw_pcie_host_init") # {}
        /\ \A i \in 1..Len(trace) :
              i > First(Calls(trace, "find_intc_node")) => trace[i][1] \notin RollbackCalls
        /\ clk

\* C10 as amended: an unresolved node fails the whole port: no interrupt
\* domain, no request of the interrupt line, no hand-over to the host
\* framework; probe runs its rollback (reset assert starting with "regs",
\* PHY power-off, PHY exit, clock disable) and returns -ENODEV.
C10_NodeFailureFailsProbe ==
    (p_pc = "done" /\ NodeUnresolved) =>
        LET n == First(Calls(trace, "find_intc_node"))
            l == Len(trace)
        IN /\ ret = -ENODEV
           /\ Calls(trace, "dw_pcie_host_init") = {}
           /\ ~host /\ ~irq_domain /\ ~irq_req
           /\ trace[n + 1] [1] = "reset_control_assert" /\ trace[n + 1][2] = "regs"
           /\ \A i \in (n + 1)..l : trace[i][1] \in RollbackCalls
           /\ trace[l - 2][1] = "phy_power_off"
           /\ trace[l - 1][1] = "phy_exit"
           /\ trace[l][1] = "clk_disable_unprepare"
           /\ ~clk

C10_Witness == p_pc = "done" /\ NodeUnresolved /\ port_idx = 1


\* C2: a dispatch invokes the handler of exactly the mapped slots among
\* 0, 2, 4, 6, 12 whose bit is set in the status snapshot, each once, no
\* handler for any other bit or for an unmapped slot, and makes exactly one
\* acknowledge write, of the snapshot value.
DispatchDone == d_pc = "idle" /\ disp.ret # "none"
C2_DispatchServesSetMappedSlots ==
    DispatchDone =>
        LET served == (UsedSlots \cap virq_map) \cap disp.status
        IN /\ \A h \in Slots :
                 Cardinality({i \in 1..Len(disp.handled) : disp.handled[i] = Virq(h)})
                    = IF h \in served THEN 1 ELSE 0
           /\ Len(disp.handled) = Cardinality(served)
           /\ disp.acks = <<disp.status>>
           /\ regs[PCIEx_INTR_STS(1 - port_idx)] = UsedSlots

\* C2 witness: snapshot {INTA_ASSERT, INTC_ASSERT}, every slot mapped:
\* slots 0 and 4 only
C2_Witness ==
    /\ DispatchDone
    /\ disp.status = PCIE_INTR_INTA_ASSERT \cup PCIE_INTR_INTC_ASSERT
    /\ virq_map = Slots
    /\ disp.handled = <<Virq(LS1024A_PCIE_INTC_INTA), Virq(LS1024A_PCIE_INTC_INTC)>>

\* C3: a dispatch that reads a status of 0 invokes no handler, writes
\* nothing but a no-op acknowledge and returns "unhandled" (IRQ_NONE).
C3_ZeroStatusIsUnhandled ==
    (DispatchDone /\ disp.status = {}) =>
        /\ disp.handled = <<>>
        /\ \A i \in 1..Len(disp.acks) : disp.acks[i] = {}
        /\ disp.ret = "IRQ_NONE"

\* C4: a start_link that finds the link up at its first test makes no write
\* that clears LTSSM-enable, touches only its own port's config registers 0
\* and 5, and has rewritten the device type to root complex when it returns.
C4_NoLtssmClearWhenLinkUp ==
    sl.up1 = 1 =>
        /\ \A i \in 1..Len(sl.writes) :
              /\ sl.writes[i][1] \in {PCIEx_CFGx(port_idx, 0), PCIEx_CFGx(port_idx, 5)}
              /\ (sl.writes[i][1] = PCIEx_CFGx(port_idx, 5)
                    /\ CFG5_LTSSM_EN \subseteq sl.writes[i][3])
                 => CFG5_LTSSM_EN \subseteq sl.writes[i][2]
        /\ CFG5_LTSSM_EN \subseteq sl.cfg5 =>
              CFG5_LTSSM_EN \subseteq regs[PCIEx_CFGx(port_idx, 5)]
        /\ regs[PCIEx_CFGx(1 - port_idx, 5)] = CFG5_LTSSM_EN
        /\ sl.ret = 0 =>
              /\ \E i \in 1..Len(sl.writes) :
                    /\ sl.writes[i][1] = PCIEx_CFGx(port_idx, 0)
                    /\ sl.writes[i][2] \cap CFG0_DEV_TYPE_MASK = CFG0_DEV_TYPE_RC
              /\ regs[PCIEx_CFGx(port_idx, 0)] \cap CFG0_DEV_TYPE_MASK = CFG0_DEV_TYPE_RC

\* C4 witness: start_link returned after finding the link up, LTSSM enabled
\* and the device type not yet root complex
C4_Witness ==
    /\ sl.up1 = 1
    /\ sl.ret = 0
    /\ CFG5_LTSSM_EN \subseteq sl.cfg5
    /\ sl.cfg0 \cap CFG0_DEV_TYPE_MASK # CFG0_DEV_TYPE_RC

\* C5: mask(slot) clears only the slot's bit of the port's enable register;
\* unmask(slot) after it leaves that bit 1 and every other bit as it was
\* before the mask, for every starting value and slot.
C5_MaskThenUnmask ==
    LET en == regs[PCIEx_INTR_EN(port_idx)]
    IN /\ mk.seq = "mask" => en = mk.start \ BIT(mk.slot)
       /\ mk.seq = "mask_unmask" =>
             /\ mk.slot \in en
             /\ en \ BIT(mk.slot) = mk.start \ BIT(mk.slot)
       /\ regs[PCIEx_INTR_EN(1 - port_idx)] = UsedSlots

\* C5 witness: the round trip on a slot that was disabled, others enabled
C5_Witness ==
    /\ mk.seq = "mask_unmask"
    /\ mk.slot = LS1024A_PCIE_INTC_INTB
    /\ mk.start = {LS1024A_PCIE_INTC_INTA, LS1024A_PCIE_INTC_MSI}

\* C6: link_up() returns true exactly when bit 16 of the port's link status
\* register 0 reads 1 at the call, whatever the other bits are and whatever
\* earlier calls returned, and the call writes no register.
C6_LinkUpIsRdlhBit ==
    /\ [](lu.ret # -1 =>
            /\ lu.ret \in {0, 1}
            /\ (lu.ret = 1) <=> (16 \in lu.val))
    /\ [][lu' # lu => (regs' = regs /\ lu'.val = regs[PCIEx_STSx(port_idx, 0)])]_vars

\* C6 witness: a call that read PHY link-up without data-link-layer
\* link-up and returned false
C6_Witness == lu.ret = 0 /\ lu.val = STS0_XMLH_LINK_UP \cup STS0_LINK_REQ_RST_NOT

\* C11: start_link always terminates, whatever the link status does: the
\* wait is a bounded poll, and when link-up is never seen the call still
\* returns 0, changes nothing of resets, PHY, clock or the probe results, and
\* start_link can be entered again.
C11_StartLinkTerminates ==
    /\ (sl_pc # "idle") ~> (sl_pc = "idle" /\ sl.ret = 0)
    /\ [](sl.polls <= MaxWait /\ sl.ret \in {-1, 0})
    /\ [](sl_pc = "idle" => ENABLED StartLink)
    /\ [][resVars' = resVars /\ probeVars' = probeVars]_vars

\* C11 witness: a call returned after every poll found the link down, the
\* port still registered and powered
C11_Witness ==
    /\ sl_pc = "idle"
    /\ sl.ret = 0
    /\ sl.up1 = 0 /\ sl.up2 = 0
    /\ sl.polls = MaxWait
    /\ ~(STS0_RDLH_LINK_UP \subseteq regs[PCIEx_STSx(port_idx, 0)])
    /\ host /\ clk /\ phy.powered /\ AllReleased(resets)

\* C12: with mask/unmask calls on different slots of one port interleaved
\* with each other and with dispatch, no update of the enable register is
\* lost: the bit of a slot whose caller has returned has the value of that
\* caller's last mask/unmask, and the bit of a slot no caller touched has its
\* initial value.
C12_NoLostEnableUpdate ==
    LET en == regs[PCIEx_INTR_EN(port_idx)]
        touched == {CallerSlot(t) : t \in {u \in Callers : callers[u] # NoCaller}}
    IN /\ \A t \in Callers :
             (callers[t].pc = "idle" /\ callers[t].last # "none") =>
                 ((CallerSlot(t) \in en) <=> (callers[t].last = "unmask"))
       /\ \A h \in Slots \ touched : (h \in en) <=> (h \in en_start)
       /\ regs[PCIEx_INTR_EN(1 - port_idx)] = UsedSlots

\* C12 witness: caller 1 masked slot INTA (enabled at the start), caller 2
\* unmasked slot MSI (disabled at the start), both have returned and a
\* dispatch has run
C12_Witness ==
    /\ en_start = {LS1024A_PCIE_INTC_INTA, 5, LS1024A_PCIE_INTC_INTD}
    /\ callers[1].last = "mask" /\ callers[1].pc = "idle"
    /\ callers[2].last = "unmask" /\ callers[2].pc = "idle"
    /\ regs[PCIEx_INTR_EN(port_idx)] = {5, LS1024A_PCIE_INTC_INTD, LS1024A_PCIE_INTC_MSI}
    /\ DispatchDone

\* C13: a status bit the hardware sets after the dispatch read its snapshot,
\* and that was not in the snapshot, is not cleared by that dispatch's
\* acknowledge write; it stays set until a later dispatch reads it, so every
\* edge on a served slot is handled exactly once: the edges raised equal the
\* handler invocations made plus the edges still pending in the status
\* register or in the snapshot being served.
C13_LateEdgeSurvivesAck ==
    LET sts == regs[PCIEx_INTR_STS(port_idx)]
    IN /\ d_pc = "sub" => (disp.late \ disp.status) \subseteq sts
       /\ \A h \in UsedSlots :
             edges[h] = invoked[h] + (IF h \in sts THEN 1 ELSE 0)
                        + (IF d_pc = "sub" /\ h \in disp.status THEN 1 ELSE 0)
       /\ regs[PCIEx_INTR_STS(1 - port_idx)] = UsedSlots

\* C13 witness: MSI was raised between the read (snapshot INTA only) and
\* the acknowledge, and the acknowledge has been written
C13_Witness ==
    /\ d_pc = "sub"
    /\ disp.status = PCIE_INTR_INTA_ASSERT
    /\ disp.late = PCIE_INTR_MSI
    /\ disp.acks = <<PCIE_INTR_INTA_ASSERT>>
    /\ edges[LS1024A_PCIE_INTC_MSI] = 1
    /\ invoked[LS1024A_PCIE_INTC_MSI] = 0

\* the order the claim gives: MSI, then INTA, INTB, INTC, INTD
ClaimedOrder == <<LS1024A_PCIE_INTC_MSI, LS1024A_PCIE_INTC_INTA, LS1024A_PCIE_INTC_INTB,
                  LS1024A_PCIE_INTC_INTC, LS1024A_PCIE_INTC_INTD>>
Rank(virq) == CHOOSE i \in 1..Len(ClaimedOrder) : Virq(ClaimedOrder[i]) = virq

\* C14: in every dispatch the acknowledge write is the step right after the
\* status read and precedes the first sub-handler; within one dispatch the
\* MSI slot is served before the INTx slots, and those in the order INTA,
\* INTB, INTC, INTD.
C14_AckFirstThenMsiThenIntx ==
    /\ [](/\ d_pc = "ack" => (disp.acks = <<>> /\ disp.handled = <<>>)
          /\ d_pc = "sub" => (disp.acks = <<disp.status>> /\ disp.handled = <<>>)
          /\ disp.handled # <<>> => disp.acks = <<disp.status>>
          /\ \A i \in 1..Len(disp.handled) :
                /\ \E k \in 1..Len(ClaimedOrder) : disp.handled[i] = Virq(ClaimedOrder[k])
                /\ \A j \in 1..Len(disp.handled) :
                      i < j => Rank(disp.handled[i]) < Rank(disp.handled[j]))
    /\ [][d_pc = "ack" =>
            (/\ d_pc' = "sub"
             /\ disp'.acks = <<disp.status>>
             /\ regs'[PCIEx_INTR_STS(port_idx)] =
                   regs[PCIEx_INTR_STS(port_idx)] \ disp.status)]_vars

\* C14 witness: a dispatch of a snapshot with all five served bits, all
\* mapped: five handlers, MSI first
C14_Witness ==
    /\ DispatchDone
    /\ UsedSlots \subseteq disp.status
    /\ disp.handled = <<Virq(LS1024A_PCIE_INTC_MSI), Virq(LS1024A_PCIE_INTC_INTA),
                        Virq(LS1024A_PCIE_INTC_INTB), Virq(LS1024A_PCIE_INTC_INTC),
                        Virq(LS1024A_PCIE_INTC_INTD)>>

\* C15: ls1024a_reset_assert() asserts regs, power, axi in that order and
\* stops at the first failing step: it returns that step's error, the
\* domains before it are asserted, no assert is attempted on the domains
\* after it (they are as they were), and it returns 0 only with all three
\* asserted.
C15_AssertStopsAtFirstFailure ==
    rc.op = "assert" =>
        LET n == Len(rc.ops)
            claimed == <<"regs", "power", "axi">>
        IN /\ n \in 1..3
           /\ \A i \in 1..n : /\ rc.ops[i][1] = "reset_control_assert"
                                /\ rc.ops[i][2] = claimed[i]
           /\ \A i \in 1..(n - 1) : rc.ops[i][3] = 0 /\ resets[claimed[i]]
           /\ rc.res = rc.ops[n][3]
           /\ rc.res # 0 => resets[claimed[n]] = rc.pre[claimed[n]]
           /\ \A i \in (n + 1)..3 : resets[claimed[i]] = rc.pre[claimed[i]]
           /\ rc.res = 0 => (n = 3 /\ AllAsserted(resets))

\* C15 witness: from all domains released, assert(regs) worked and
\* assert(power) failed: regs asserted, power and axi still released
C15_Witness ==
    /\ rc.op = "assert"
    /\ rc.pre = [x \in Domains |-> FALSE]
    /\ Len(rc.ops) = 2
    /\ rc.res # 0
    /\ resets = [x \in Domains |-> x = "regs"]

\* no reset_control_assert() call of probe has failed
NoAssertFailed == \A i \in Calls(trace, "reset_control_assert") : trace[i][3] = 0

\* the clock was enabled after all three resets had been asserted
ClockAfterAsserts ==
    \E j \in CallsOk(trace, "clk_prepare_enable") :
        \A x \in Domains :
            \E i \in CallsOk(trace, "reset_control_assert") : i < j /\ trace[i][2] = x

\* a released reset domain has the PHY powered and the clock enabled (from
\* the point where probe has asserted the resets)
ReleasedOnlyWhilePowered ==
    (Calls(trace, "reset_control_assert") # {} /\ ~AllAsserted(resets)) =>
        (phy.powered /\ clk)

\* the interrupt line was requested after all three resets had been released
IrqAfterReleases ==
    \E j \in CallsOk(trace, "devm_request_irq") :
        \A x \in Domains :
            \E i \in CallsOk(trace, "reset_control_deassert") : i < j /\ trace[i][2] = x

C17_LinkDownWriteOrder ==
    LET cfg0 == PCIEx_CFGx(port_idx, 0)
        cfg5 == PCIEx_CFGx(port_idx, 5)
        n == Len(sl.writes)
        rc0 == (sl.cfg0 \ CFG0_DEV_TYPE_MASK) \cup CFG0_DEV_TYPE_RC
    IN /\ sl.up1 = 0 =>
             /\ n >= 1 => sl.writes[1] = <<cfg5, sl.cfg5 \ CFG5_LTSSM_EN, sl.cfg5>>
             /\ n >= 2 => sl.writes[2] = <<cfg0, rc0, sl.cfg0>>
             /\ (n >= 1 /\ CFG5_LTSSM_EN \subseteq regs[cfg5]) =>
                    regs[cfg0] \cap CFG0_DEV_TYPE_MASK = CFG0_DEV_TYPE_RC
       /\ (sl.up1 = 0 /\ sl.up2 = 0 /\ sl_pc # "ltssm_on") =>
             /\ n = 3
             /\ sl.writes[3] = <<cfg5, sl.cfg5 \cup CFG5_LTSSM_EN \cup CFG5_APP_INIT_RST,
                                 sl.cfg5 \ CFG5_LTSSM_EN>>
             /\ regs[cfg5] = sl.cfg5 \cup CFG5_LTSSM_EN \cup CFG5_APP_INIT_RST
             /\ regs[cfg0] = rc0
       /\ regs[PCIEx_CFGx(1 - port_idx, 5)] = CFG5_LTSSM_EN
       /\ regs[PCIEx_CFGx(1 - port_idx, 0)] = CFG0_DEV_TYPE_RC

\* C17 witness: such a call has returned; before it LTSSM was enabled with
\* link-down-reset and app-ready-for-L23 set and the device type was 1
C17_Witness ==
    /\ sl.up1 = 0 /\ sl.up2 = 0
    /\ sl.ret = 0
    /\ sl.cfg5 = CFG5_LINK_DOWN_RST \cup CFG5_APP_RDY_L23 \cup CFG5_LTSSM_EN
    /\ sl.cfg0 = {0, 4}

\* C18: a start_link that cleared LTSSM-enable (link down at its first test)
\* has set it again when it returns, whatever the link status did between
\* its two tests.
C18_LtssmReenabledBeforeReturn ==
    (sl.up1 = 0 /\ sl.ret = 0) =>
        CFG5_LTSSM_EN \subseteq regs[PCIEx_CFGx(port_idx, 5)]

\* C19: masking takes effect on dispatch: a dispatch invokes no handler of
\* a slot that a mask() call masked before the dispatch began and that no
\* later call touched, even when the slot's bit is set in the snapshot; and
\* dispatch leaves the interrupt-enable register alone (bits no caller
\* touched keep their initial value).
C19_MaskedSlotNotDispatched ==
    /\ DispatchDone =>
          \A h \in disp.masked : Invocations(disp.handled, h) = 0
    /\ \A h \in Slots \ {CallerSlot(t) : t \in Callers} :
          (h \in regs[PCIEx_INTR_EN(port_idx)]) <=> (h \in en_start)

\* C20: when probe fails after the port's interrupt domain was created
\* (of_irq_get, devm_request_irq or dw_pcie_host_init failed), the domain is
\* removed before probe returns: a failed probe leaves no interrupt domain
\* registered.
C20_FailedProbeRemovesDomain ==
    (p_pc = "done" /\ ret # 0) => ~irq_domain

====
